---- MODULE Spec2Model ----
(***************************************************************************)
(* git-ew: ingestion of e-mail messages into Threads and Messages.         *)
(*                                                                         *)
(* Two ingestion paths write the same store (./git_ew.db):                 *)
(*   - ingest_archive (mailing_lists/zsh_workers/ingest.py): one synchronous*)
(*     session per archive, committed once after the last message;         *)
(*   - sync_all_sources (sync.py), also the body of POST /api/sync         *)
(*     (app.py): one committed transaction per Database call.              *)
(* Message ids are strings; only equality and emptiness are ever tested,   *)
(* so three ids and the empty string stand for them.  Columns that no      *)
(* modelled operation reads back (subject, body, sender, raw_email, patch  *)
(* flags) are left out of the rows.                                        *)
(***************************************************************************)
EXTENDS Naturals, Integers, Sequences, FiniteSets, TLC

(* ---- bounds ---- *)
MaxDate == 2          \* instants 1..MaxDate
MaxArchive == 2       \* stored-or-skipped e-mails per ingest_archive call
MaxSource == 2        \* e-mails stored per sync pass
MaxSources == 2       \* enabled EmailSource rows per sync pass
MaxThread == 3        \* Message rows in a thread that is viewed
MaxLines == 3         \* lines of a body handed to email_parser

(* ---- values ---- *)
None == "None"
IDs == {"a", "b", "c"}
Falsy(x) == x = None \/ x = ""

\* A datetime: an instant and whether it carries a timezone (aware) or not.
Dates == [t : 1..MaxDate, aware : BOOLEAN]

\* What the column type DateTime (no timezone) gives back on reload.
NaiveDate(d) == [d EXCEPT !.aware = FALSE]

\* One e-mail as read from an archive or a mailbox, headers already split:
\* a missing or empty header is the empty string / the empty list.
\* References lists hold one id, or two with the parent (In-Reply-To) last;
\* the e-mails without a Message-ID are the ones without reply headers.
References ==
    {<<>>} \cup {<<x>> : x \in IDs}
           \cup {<<x, y>> : x \in IDs, y \in IDs}
Emails ==
    {m \in [message_id : IDs \cup {""}, in_reply_to : IDs \cup {""},
            references : References, date : Dates] :
        /\ Len(m.references) = 2 =>
              /\ m.references[1] # m.references[2]
              /\ m.references[2] = m.in_reply_to
        /\ m.message_id = "" => (m.references = <<>> /\ m.in_reply_to = "")}

\* Dates never decide which thread a message joins: the specification of the
\* linkage draws every e-mail with one date and reads one clock value.
Epoch == [t |-> 1, aware |-> TRUE]
UndatedEmails == {m \in Emails : m.date = Epoch}
Undated == [emails |-> UndatedEmails, nows |-> {1}, record |-> FALSE]
\* The specification of the timestamps draws dated e-mails that start a thread
\* or reply to one message, and reads a clock.
DatedEmails ==
    {m \in Emails :
        /\ m.message_id # ""
        /\ \/ (m.references = <<>> /\ m.in_reply_to = "")
           \/ (Len(m.references) = 1 /\ m.in_reply_to = m.references[1])}
Dated == [emails |-> DatedEmails, nows |-> 1..MaxDate, record |-> FALSE]

\* The specification of the re-run keeps what it read from the archive file, to
\* ingest the same file again; its e-mails start a thread or reply to one message.
ReplayEmails == {m \in DatedEmails : m.date = Epoch}
Replayed == [emails |-> ReplayEmails, nows |-> {1}, record |-> TRUE]

\* Archives and mailboxes of two messages, for the runs with thread views
\* and status updates.
StatusEmails == {m \in ReplayEmails : m.message_id \in {"a", "b"}}
Statused == [emails |-> StatusEmails, nows |-> {1}, record |-> FALSE]
\* Mailboxes for sync passes that run at the same time: two messages, each
\* the start of a thread or a reply to a message c that is not at hand.
ConcEmails == {m \in StatusEmails : m.references \in {<<>>, <<"c">>}}
Concurrent == [emails |-> ConcEmails, nows |-> {1}, record |-> FALSE]
\* One reply tree, for the runs that vary the order of arrival: a starts
\* the thread, b replies to a, c replies to b; References start at the root.
OrderEmails ==
    {m \in UndatedEmails :
        \/ (m.message_id = "a" /\ m.references = <<>> /\ m.in_reply_to = "")
        \/ (m.message_id = "b" /\ m.references = <<"a">> /\ m.in_reply_to = "a")
        \/ (m.message_id = "c" /\ m.references = <<"a", "b">> /\ m.in_reply_to = "b")}
Ordered == [emails |-> OrderEmails, nows |-> {1}, record |-> FALSE]
Procs == {1, 2}       \* sync passes (sync_all_sources calls)

VARIABLES
    threads,      \* committed Thread rows
    messages,     \* committed Message rows
    pc,           \* ingest_archive: "idle", "loop", "body", "returned", "raised"
    session,      \* the rows ingest_archive's session sees (committed + flushed)
    msg,          \* the e-mail the archive loop is processing
    inserted,
    skipped,
    warnings,     \* message ids the running ingest_archive logged a warning for
    archive,      \* the e-mails of the archive file, where the run keeps them
    run,          \* 0, or 1 / 2 for the first / second ingest_archive call on that file
    spc,          \* per sync pass: "idle", "sources", "fetch", "lookup",
                  \*   "create_thread", "create_message", "returned"
    parsed_email, \* per sync pass: the ParsedEmail in hand
    thread,       \* per sync pass: id of the local variable thread, or None
    stats,        \* per sync pass: the statistics dictionary
    branch,       \* the branch the last loop body or Database call took
    vpc,          \* view_thread: "idle", "loaded", "built", "listed"
    tmessages,    \* view_thread: thread.messages as loaded, a list of Message rows
    tree,         \* view_thread: the ThreadNode objects and the list of roots
    flat_list,    \* view_thread: the list thread_to_flat_list returned
    flatten,      \* view_thread: the flatten query parameter
    tpc,          \* email_parser: "idle", "parsed", "extracted"
    subject,      \* email_parser: the Subject header, a sequence of characters
    body,         \* email_parser: the body, a sequence of lines of tokens
    patch,        \* parse_email: is_patch and patch_content as returned
    quote         \* extract_quoted_text: the pair returned

ingestVars == <<pc, session, msg, inserted, skipped, warnings, archive, run>>
syncVars == <<spc, parsed_email, thread, stats>>
viewVars == <<vpc, tmessages, tree, flat_list, flatten>>
textVars == <<tpc, subject, body, patch, quote>>
vars == <<threads, messages, ingestVars, syncVars, branch, viewVars, textVars>>

NoSession == [threads |-> {}, messages |-> {}]
\* An Optional[str] is <<>> for None and <<s>> for the string s.
NoPatch == [is_patch |-> FALSE, patch_content |-> <<>>]
NoQuote == [new_content |-> <<>>, quoted_content |-> <<>>]
NoTree == [nodes |-> <<>>, roots |-> <<>>]
NoStats == [new_messages |-> 0, new_threads |-> 0, processed_sources |-> 0, errors |-> 0]

(* ---- ingest.py header helpers ---- *)
get_email_message_id(m) == IF m.message_id = "" THEN None ELSE m.message_id
get_email_in_reply_to(m) == IF m.in_reply_to = "" THEN None ELSE m.in_reply_to
get_email_references(m) == m.references

(* ---- email_parser.py ---- *)
\* parse_email keeps a missing Message-ID as the empty string.
parse_email(m) ==
    [message_id |-> m.message_id,
     in_reply_to |-> IF m.in_reply_to = "" THEN None ELSE m.in_reply_to,
     references |-> m.references,
     date |-> m.date]

get_thread_id(e) ==
    IF e.references # <<>> THEN e.references[1]
    ELSE IF ~Falsy(e.in_reply_to) THEN e.in_reply_to
    ELSE e.message_id

(* ---- queries ---- *)
MessageById(ms, id) == {r \in ms : r.message_id = id}
ThreadByFirst(ts, id) == {t \in ts : t.first_message_id = id}
ThreadByPk(ts, k) == {t \in ts : t.id = k}
NextThreadId(ts) ==
    IF ts = {} THEN 1
    ELSE 1 + CHOOSE k \in {t.id : t \in ts} : \A t \in ts : t.id <= k

\* date > thread.updated_at raises TypeError between an aware and a naive datetime.
Comparable_always(d, e) == TRUE

Comparable(d, e) == d.aware = e.aware

\* existing = session.query(Message).filter_by(message_id=...).first()  (ingest.py 226-227)
IsDuplicate_among_thread_roots(s, own) == ThreadByFirst(s.threads, own) # {}
IsDuplicate(s, own) == MessageById(s.messages, own) # {}

(* ---- ingest_archive: thread root derivation (ingest.py 278-290) ---- *)
intended_thread_root_reply_first(m) ==
    IF ~Falsy(get_email_in_reply_to(m)) THEN get_email_in_reply_to(m)
    ELSE IF get_email_references(m) # <<>> THEN get_email_references(m)[1]
    ELSE None
intended_thread_root(m) ==
    IF get_email_references(m) # <<>> THEN get_email_references(m)[1]
    ELSE IF ~Falsy(get_email_in_reply_to(m)) THEN get_email_in_reply_to(m)
    ELSE None

thread_root_id(m) ==
    IF intended_thread_root(m) # None THEN intended_thread_root(m)
    ELSE get_email_message_id(m)

IngestRepair_root_only(s, m) ==
    LET own  == get_email_message_id(m)
        root == intended_thread_root(m)
    IN IF ~Falsy(root) /\ root # own
       THEN UNION {ThreadByPk(s.threads, r.thread_id) : r \in MessageById(s.messages, root)}
       ELSE {}
\* The threads reached through a stored message (ingest.py 297-308): the
\* claimed root's thread, else the In-Reply-To target's thread, else none.
IngestRepair(s, m) ==
    LET own  == get_email_message_id(m)
        root == intended_thread_root(m)
        irt  == get_email_in_reply_to(m)
    IN IF ~Falsy(root) /\ root # own
       THEN IF MessageById(s.messages, root) # {}
            THEN UNION {ThreadByPk(s.threads, r.thread_id) : r \in MessageById(s.messages, root)}
            ELSE IF ~Falsy(irt) /\ MessageById(s.messages, irt) # {}
                 THEN UNION {ThreadByPk(s.threads, r.thread_id) : r \in MessageById(s.messages, irt)}
                 ELSE {}
       ELSE {}

\* The warning of ingest.py 310-316 is logged and thread_root_id falls back.
IngestFallsBack(s, m) ==
    /\ ThreadByFirst(s.threads, thread_root_id(m)) = {}
    /\ ~Falsy(intended_thread_root(m))
    /\ intended_thread_root(m) # get_email_message_id(m)
    /\ MessageById(s.messages, intended_thread_root(m)) = {}
    /\ IngestRepair(s, m) = {}

\* first_message_id of the Thread built at ingest.py 320-327.
IngestNewRoot_claimed_root(s, m) == thread_root_id(m)

IngestNewRoot(s, m) ==
    IF IngestFallsBack(s, m) THEN get_email_message_id(m) ELSE thread_root_id(m)

NewThread(ts, first, created, updated) ==
    [id |-> NextThreadId(ts), first_message_id |-> first,
     created_at |-> created, updated_at |-> updated, status |-> "open"]

NewMessage(own, tid) == [message_id |-> own, thread_id |-> tid]

\* ingest.py 330-338: the else branch of "if not thread"
TouchUpdatedAt(t, d) ==
    IF Comparable(d, t.updated_at) /\ d.t > t.updated_at.t
    THEN [t EXCEPT !.updated_at = d]
    ELSE t

\* Rows as the DateTime columns keep them.
Stored(ts) ==
    {[t EXCEPT !.created_at = NaiveDate(@), !.updated_at = NaiveDate(@)] : t \in ts}

Init ==
    /\ threads = {}
    /\ messages = {}
    /\ pc = "idle"
    /\ session = NoSession
    /\ msg = None
    /\ inserted = 0
    /\ skipped = 0
    /\ warnings = {}
    /\ archive = <<>>
    /\ run = 0
    /\ spc = [p \in Procs |-> "idle"]
    /\ parsed_email = [p \in Procs |-> None]
    /\ thread = [p \in Procs |-> None]
    /\ stats = [p \in Procs |-> NoStats]
    /\ branch = "none"
    /\ vpc = "idle"
    /\ tmessages = <<>>
    /\ tree = NoTree
    /\ flat_list = <<>>
    /\ flatten = TRUE
    /\ tpc = "idle"
    /\ subject = <<>>
    /\ body = <<>>
    /\ patch = NoPatch
    /\ quote = NoQuote

NoSyncRunning == \A p \in Procs : spc[p] = "idle"

(* ======================= ingest_archive ======================= *)

\* with db.session_maker() as session  (ingest.py 212-215)
IngestBegin(U) ==
    /\ pc = "idle"
    /\ NoSyncRunning
    /\ pc' = "loop"
    /\ session' = [threads |-> threads, messages |-> messages]
    /\ inserted' = 0
    /\ skipped' = 0
    /\ warnings' = {}
    /\ archive' = <<>>
    /\ run' = IF U.record THEN 1 ELSE 0
    /\ branch' = "none"
    /\ UNCHANGED <<threads, messages, msg, syncVars, viewVars, textVars>>

\* for filename, msg in extract_emails_from_archive(...)  (ingest.py 216)
IngestNext(U) ==
    /\ pc = "loop"
    /\ run < 2
    /\ inserted + skipped < MaxArchive
    /\ \E m \in U.emails :
         /\ msg' = m
         /\ archive' = IF U.record THEN Append(archive, m) ELSE archive
    /\ pc' = "body"
    /\ branch' = "none"
    /\ UNCHANGED <<threads, messages, session, inserted, skipped, warnings, run, syncVars, viewVars, textVars>>

\* The same loop head when the file is ingested a second time.
IngestNextAgain ==
    /\ pc = "loop"
    /\ run = 2
    /\ archive # <<>>
    /\ msg' = Head(archive)
    /\ archive' = Tail(archive)
    /\ pc' = "body"
    /\ branch' = "none"
    /\ UNCHANGED <<threads, messages, session, inserted, skipped, warnings, run, syncVars, viewVars, textVars>>

\* The loop body for one e-mail (ingest.py 217-354).
IngestBody ==
    /\ pc = "body"
    /\ LET own      == get_email_message_id(msg)
           date     == msg.date
           byRoot   == ThreadByFirst(session.threads, thread_root_id(msg))
           repaired == IngestRepair(session, msg)
           first    == IngestNewRoot(session, msg)
       IN
       IF Falsy(own)
       THEN /\ branch' = "noid"
            /\ pc' = "loop"
            /\ UNCHANGED <<session, inserted, skipped, warnings>>
       ELSE IF IsDuplicate(session, own)
       THEN /\ branch' = "dup"
            /\ skipped' = skipped + 1
            /\ pc' = "loop"
            /\ UNCHANGED <<session, inserted, warnings>>
       ELSE IF byRoot # {}
       THEN \* found by its root: the else branch at ingest.py 330
            \E t \in byRoot :
              /\ session' = [threads |-> (session.threads \ {t}) \cup {TouchUpdatedAt(t, date)},
                             messages |-> session.messages \cup {NewMessage(own, t.id)}]
              /\ inserted' = inserted + 1
              /\ branch' = IF Comparable(date, t.updated_at)
                           THEN "root" ELSE "root_incomparable"   \* except TypeError: pass
              /\ pc' = "loop"
              /\ UNCHANGED <<skipped, warnings>>
       ELSE IF repaired # {}
       THEN \* found through a stored message: ingest.py 328-329 re-adds it, no else branch
            \E t \in repaired :
              /\ session' = [session EXCEPT !.messages = @ \cup {NewMessage(own, t.id)}]
              /\ inserted' = inserted + 1
              /\ branch' = IF MessageById(session.messages, intended_thread_root(msg)) # {}
                           THEN "repair_root" ELSE "repair_irt"
              /\ pc' = "loop"
              /\ UNCHANGED <<skipped, warnings>>
       ELSE \* Thread(...), session.add, session.flush (ingest.py 318-329)
            /\ warnings' = IF IngestFallsBack(session, msg) THEN warnings \cup {own} ELSE warnings
            /\ IF ThreadByFirst(session.threads, first) # {}
               THEN \* IntegrityError on threads.first_message_id: the session rolls back
                    /\ branch' = "integrity_error"
                    /\ pc' = "raised"
                    /\ session' = NoSession
                    /\ UNCHANGED <<inserted, skipped>>
               ELSE LET t == NewThread(session.threads, first, date, date)
                    IN /\ session' = [threads |-> session.threads \cup {t},
                                      messages |-> session.messages \cup {NewMessage(own, t.id)}]
                       /\ inserted' = inserted + 1
                       /\ branch' = IF IngestFallsBack(session, msg) THEN "fallback" ELSE "own"
                       /\ pc' = "loop"
                       /\ UNCHANGED skipped
    /\ msg' = None
    /\ UNCHANGED <<threads, messages, archive, run, syncVars, viewVars, textVars>>

\* session.commit(); return inserted, skipped  (ingest.py 356-358)
IngestCommit ==
    /\ pc = "loop"
    /\ run = 2 => archive = <<>>
    /\ threads' = Stored(session.threads)
    /\ messages' = session.messages
    /\ session' = NoSession
    /\ pc' = "returned"
    /\ UNCHANGED <<msg, inserted, skipped, warnings, archive, run, syncVars, viewVars, textVars, branch>>

\* What is written when reading the archive fails, were the session committed
\* on the way out.
IngestRaise_keeps_partial ==
    /\ pc = "loop"
    /\ pc' = "raised"
    /\ threads' = Stored(session.threads)
    /\ messages' = session.messages
    /\ session' = NoSession
    /\ branch' = "read_error"
    /\ UNCHANGED <<msg, inserted, skipped, warnings, archive, run, syncVars, viewVars, textVars>>

\* tar.extractfile(member) raises in the middle of the archive (ingest.py 86-89,
\* outside the try): the with block closes the session without a commit (215).
IngestRaise ==
    /\ pc = "loop"
    /\ pc' = "raised"
    /\ session' = NoSession
    /\ branch' = "read_error"
    /\ UNCHANGED <<threads, messages, msg, inserted, skipped, warnings, archive, run, syncVars, viewVars, textVars>>

\* The caller takes the result or the exception (scripts/ingest_archives.py 36-43).
IngestDone ==
    /\ pc \in {"returned", "raised"}
    /\ pc' = "idle"
    /\ inserted' = 0
    /\ skipped' = 0
    /\ warnings' = {}
    /\ archive' = <<>>
    /\ run' = 0
    /\ branch' = "none"
    /\ UNCHANGED <<threads, messages, session, msg, syncVars, viewVars, textVars>>

\* ingest_archive is called again on the same file (the script is run again).
IngestAgain ==
    /\ pc \in {"returned", "raised"}
    /\ run = 1
    /\ pc' = "loop"
    /\ run' = 2
    /\ session' = [threads |-> threads, messages |-> messages]
    /\ inserted' = 0
    /\ skipped' = 0
    /\ warnings' = {}
    /\ branch' = "none"
    /\ UNCHANGED <<threads, messages, msg, archive, syncVars, viewVars, textVars>>

(* ======================= sync_all_sources ======================= *)

\* sources = await db.get_email_sources(); stats = {...}  (sync.py 28-36)
SyncBegin(p) ==
    /\ spc[p] = "idle"
    /\ spc' = [spc EXCEPT ![p] = "sources"]
    /\ stats' = [stats EXCEPT ![p] = NoStats]
    /\ branch' = "none"
    /\ UNCHANGED <<threads, messages, ingestVars, viewVars, textVars, parsed_email, thread>>

\* for source in sources: a disabled source is passed over; get_fetcher may
\* raise for a source it cannot read (sync.py 38-44, 89-92).
SyncSource(p) ==
    /\ spc[p] = "sources"
    /\ stats[p].processed_sources + stats[p].errors < MaxSources
    /\ \E kind \in {"disabled", "unreadable", "enabled"} :
         /\ spc' = [spc EXCEPT ![p] = IF kind = "enabled" THEN "fetch" ELSE "sources"]
         /\ stats' = [stats EXCEPT ![p].errors = IF kind = "unreadable" THEN @ + 1 ELSE @]
         /\ branch' = kind
    /\ UNCHANGED <<threads, messages, ingestVars, viewVars, textVars, parsed_email, thread>>

\* async for parsed_email in fetcher.fetch_emails(): the next e-mail, and
\* existing = await db.get_message_by_id(...); if existing: continue
\* (sync.py 47-51; nothing is awaited between the yield and the call)
SyncFetch(p, U) ==
    /\ spc[p] = "fetch"
    /\ stats[p].new_messages < MaxSource
    /\ \E m \in U.emails :
         IF MessageById(messages, parse_email(m).message_id) # {}
         THEN /\ branch' = "sync_dup"
              /\ UNCHANGED <<spc, parsed_email>>
         ELSE /\ parsed_email' = [parsed_email EXCEPT ![p] = parse_email(m)]
              /\ spc' = [spc EXCEPT ![p] = "lookup"]
              /\ branch' = "none"
    /\ UNCHANGED <<threads, messages, ingestVars, viewVars, textVars, thread, stats>>

\* The fetcher is exhausted: stats["processed_sources"] += 1  (sync.py 84-87)
SyncSourceDone(p) ==
    /\ spc[p] = "fetch"
    /\ spc' = [spc EXCEPT ![p] = "sources"]
    /\ stats' = [stats EXCEPT ![p].processed_sources = @ + 1]
    /\ branch' = "processed"
    /\ UNCHANGED <<threads, messages, ingestVars, viewVars, textVars, parsed_email, thread>>

\* thread = await db.get_thread_by_message_id(thread_id_str)  (sync.py 54-57)
SyncLookup(p) ==
    /\ spc[p] = "lookup"
    /\ LET found == ThreadByFirst(threads, get_thread_id(parsed_email[p]))
       IN IF found = {}
          THEN /\ thread' = [thread EXCEPT ![p] = None]
               /\ spc' = [spc EXCEPT ![p] = "create_thread"]
          ELSE /\ \E t \in found : thread' = [thread EXCEPT ![p] = t.id]
               /\ spc' = [spc EXCEPT ![p] = "create_message"]
    /\ UNCHANGED <<threads, messages, ingestVars, viewVars, textVars, parsed_email, stats, branch>>

SyncRaise_counts_source(p) ==
    /\ spc' = [spc EXCEPT ![p] = "sources"]
    /\ stats' = [stats EXCEPT ![p].errors = @ + 1, ![p].processed_sources = @ + 1]
    /\ parsed_email' = [parsed_email EXCEPT ![p] = None]
    /\ thread' = [thread EXCEPT ![p] = None]
    /\ branch' = "sync_error"
    /\ UNCHANGED <<threads, messages>>

\* The except clause of sync.py 89-92: the source is abandoned.
SyncRaise(p) ==
    /\ spc' = [spc EXCEPT ![p] = "sources"]
    /\ stats' = [stats EXCEPT ![p].errors = @ + 1]
    /\ parsed_email' = [parsed_email EXCEPT ![p] = None]
    /\ thread' = [thread EXCEPT ![p] = None]
    /\ branch' = "sync_error"
    /\ UNCHANGED <<threads, messages>>

\* thread = await db.create_thread(...)  (sync.py 59-64, database.py 104-134)
SyncCreateThread(p, U) ==
    /\ spc[p] = "create_thread"
    /\ LET first == get_thread_id(parsed_email[p])
       IN IF ThreadByFirst(threads, first) # {}
          THEN SyncRaise(p)
          ELSE \E now \in U.nows :
                 LET t == NewThread(threads, first, [t |-> now, aware |-> TRUE],
                                    [t |-> now, aware |-> TRUE])
                 IN /\ threads' = threads \cup Stored({t})
                    /\ thread' = [thread EXCEPT ![p] = t.id]
                    /\ stats' = [stats EXCEPT ![p].new_threads = @ + 1]
                    /\ spc' = [spc EXCEPT ![p] = "create_message"]
                    /\ branch' = "sync_created"
                    /\ UNCHANGED <<messages, parsed_email>>
    /\ UNCHANGED <<ingestVars, viewVars, textVars>>

\* await db.create_message(...)  (sync.py 67-82, database.py 136-192)
SyncCreateMessage(p, U) ==
    /\ spc[p] = "create_message"
    /\ LET own == parsed_email[p].message_id
       IN IF MessageById(messages, own) # {}
          THEN SyncRaise(p)
          ELSE \E now \in U.nows :
                 /\ messages' = messages \cup {NewMessage(own, thread[p])}
                 /\ threads' = {IF t.id = thread[p]
                                THEN [t EXCEPT !.updated_at = [t |-> now, aware |-> FALSE]]
                                ELSE t : t \in threads}
                 /\ stats' = [stats EXCEPT ![p].new_messages = @ + 1]
                 /\ spc' = [spc EXCEPT ![p] = "fetch"]
                 /\ parsed_email' = [parsed_email EXCEPT ![p] = None]
                 /\ thread' = [thread EXCEPT ![p] = None]
                 /\ branch' = "sync_stored"
    /\ UNCHANGED <<ingestVars, viewVars, textVars>>

\* return stats  (sync.py 94)
SyncReturn(p) ==
    /\ spc[p] = "sources"
    /\ spc' = [spc EXCEPT ![p] = "returned"]
    /\ UNCHANGED <<threads, messages, ingestVars, viewVars, textVars, parsed_email, thread, stats, branch>>

\* The caller has read the statistics (sync.py 107-120).
SyncDone(p) ==
    /\ spc[p] = "returned"
    /\ spc' = [spc EXCEPT ![p] = "idle"]
    /\ stats' = [stats EXCEPT ![p] = NoStats]
    /\ branch' = "none"
    /\ UNCHANGED <<threads, messages, ingestVars, viewVars, textVars, parsed_email, thread>>

(* ======================= thread_utils.py ======================= *)

\* Message rows as build_thread_tree reads them: message_id and in_reply_to.
\* The rows of one thread come from the messages table, whose message_id
\* column is unique.
TreeIDs == {"a", "b", "c", "d"}
TreeRows == [message_id : TreeIDs, in_reply_to : TreeIDs \cup {None, ""}]
DistinctIds(ms) == \A i, j \in 1..Len(ms) : ms[i].message_id = ms[j].message_id => i = j
TreeInputs ==
    {ms \in UNION {[1..n -> TreeRows] : n \in 0..MaxThread} : DistinctIds(ms)}

IdsOf(ms) == [i \in 1..Len(ms) |-> ms[i].message_id]

\* ThreadNode(message=msg, children=...), with __post_init__.
ThreadNode(message, children) ==
    [message |-> message, children |-> children, depth |-> 0,
     can_flatten |-> (Len(children) = 1)]

RECURSIVE set_depths(_, _, _)
RECURSIVE set_depths_each(_, _, _)
\* set_depths(node, depth): the nodes after the call.
set_depths(nodes, id, depth) ==
    set_depths_each([nodes EXCEPT ![id].depth = depth], nodes[id].children, depth + 1)

\* for child in ids: set_depths(child, depth)
set_depths_each(nodes, ids, depth) ==
    IF ids = <<>> THEN nodes
    ELSE set_depths_each(set_depths(nodes, Head(ids), depth), Tail(ids), depth)

\* msg.in_reply_to and msg.in_reply_to in nodes
InNodes(ms, m) ==
    /\ ~Falsy(m.in_reply_to)
    /\ \E i \in 1..Len(ms) : ms[i].message_id = m.in_reply_to

\* The children list of nodes[id] once the linking loop is over:
\* parent_node.children.append(node), in the order of the input.
children_of_newest_first(ms, id) ==
    LET kept == SelectSeq(ms, LAMBDA m : InNodes(ms, m) /\ m.in_reply_to = id)
    IN [i \in 1..Len(kept) |-> kept[Len(kept) + 1 - i].message_id]

children_of_appended_twice(ms, id) ==
    LET once == IdsOf(SelectSeq(ms, LAMBDA m : InNodes(ms, m) /\ m.in_reply_to = id))
    IN once \o once

children_of(ms, id) ==
    IdsOf(SelectSeq(ms, LAMBDA m : InNodes(ms, m) /\ m.in_reply_to = id))

build_thread_tree(ms) ==
    LET ids == {ms[i].message_id : i \in 1..Len(ms)}
        msgOf(id) == ms[CHOOSE i \in 1..Len(ms) : ms[i].message_id = id]
        linked == [id \in ids |->
                     [ThreadNode(msgOf(id), <<>>) EXCEPT !.children = children_of(ms, id)]]
        roots == IdsOf(SelectSeq(ms, LAMBDA m : ~InNodes(ms, m)))
    IN [nodes |-> set_depths_each(linked, roots, 0), roots |-> roots]

RECURSIVE mark_flattenable(_, _)
RECURSIVE mark_flattenable_each(_, _)
\* mark_flattenable(node): the nodes after the call and the value returned.
mark_flattenable(nodes, id) ==
    LET ch == nodes[id].children
    IN IF Len(ch) = 0 THEN [nodes |-> nodes, linear |-> TRUE]
       ELSE IF Len(ch) = 1
            THEN LET r == mark_flattenable(nodes, ch[1])
                 IN [nodes |-> [r.nodes EXCEPT ![id].can_flatten = r.linear],
                     linear |-> TRUE]
            ELSE [nodes |-> mark_flattenable_each([nodes EXCEPT ![id].can_flatten = FALSE], ch),
                  linear |-> FALSE]

mark_flattenable_each(nodes, ids) ==
    IF ids = <<>> THEN nodes
    ELSE mark_flattenable_each(mark_flattenable(nodes, Head(ids)).nodes, Tail(ids))

flatten_linear_chains(t) == [t EXCEPT !.nodes = mark_flattenable_each(t.nodes, t.roots)]

next_visual_depth_always_deeper(node, current_visual_depth, fl) ==
    current_visual_depth + 1

next_visual_depth_ignores_flag(node, current_visual_depth, fl) ==
    IF Len(node.children) # 1 THEN current_visual_depth + 1 ELSE current_visual_depth

\* next_visual_depth = current_visual_depth + 1
\*     if len(node.children) != 1 or not flatten else current_visual_depth
next_visual_depth(node, current_visual_depth, fl) ==
    IF Len(node.children) # 1 \/ ~fl
    THEN current_visual_depth + 1
    ELSE current_visual_depth

RECURSIVE traverse(_, _, _, _)
RECURSIVE traverse_each(_, _, _, _)
\* traverse(node, parent_node, visual_depth=...): the entries it appends.
traverse(nodes, id, visual_depth, fl) ==
    LET node == nodes[id]
        current_visual_depth == visual_depth
    IN <<[message |-> node.message,
          depth |-> current_visual_depth,
          has_children |-> Len(node.children) > 0,
          num_children |-> Len(node.children)]>>
       \o traverse_each(nodes, node.children,
                        next_visual_depth(node, current_visual_depth, fl), fl)

traverse_each(nodes, ids, visual_depth, fl) ==
    IF ids = <<>> THEN <<>>
    ELSE traverse(nodes, Head(ids), visual_depth, fl)
         \o traverse_each(nodes, Tail(ids), visual_depth, fl)

thread_to_flat_list(t, fl) == traverse_each(t.nodes, t.roots, 0, fl)

\* view_thread loads thread.messages (app.py 103-105).
ViewThread(inputs) ==
    /\ vpc = "idle"
    /\ \E ms \in inputs, fl \in BOOLEAN :
         /\ tmessages' = ms
         /\ flatten' = fl
    /\ vpc' = "loaded"
    /\ UNCHANGED <<threads, messages, ingestVars, syncVars, branch, textVars, tree, flat_list>>

BuildThreadTree ==
    /\ vpc = "loaded"
    /\ tree' = build_thread_tree(tmessages)
    /\ vpc' = "built"
    /\ UNCHANGED <<threads, messages, ingestVars, syncVars, branch, textVars, tmessages, flat_list, flatten>>

FlattenLinearChains ==
    /\ vpc = "built"
    /\ tree' = flatten_linear_chains(tree)
    /\ UNCHANGED <<threads, messages, ingestVars, syncVars, branch, textVars, vpc, tmessages, flat_list, flatten>>

ThreadToFlatList ==
    /\ vpc = "built"
    /\ flat_list' = thread_to_flat_list(tree, flatten)
    /\ vpc' = "listed"
    /\ UNCHANGED <<threads, messages, ingestVars, syncVars, branch, textVars, tmessages, tree, flatten>>

\* The response is rendered and the objects are dropped.
ViewDone ==
    /\ vpc = "listed"
    /\ vpc' = "idle"
    /\ tmessages' = <<>>
    /\ tree' = NoTree
    /\ flat_list' = <<>>
    /\ flatten' = TRUE
    /\ UNCHANGED <<threads, messages, ingestVars, syncVars, branch, textVars>>

(* ======================= update_thread ======================= *)

\* ThreadUpdate.status is any string or None (app.py 60-63).
Submitted == {"open", "closed", "archived", "", None}

update_thread_status_recreates_row(ts, k, status, now) ==
    (ts \ ThreadByPk(ts, k))
      \cup {[t EXCEPT !.id = NextThreadId(ts), !.status = status] : t \in ThreadByPk(ts, k)}

\* Database.update_thread_status: the threads table after the call.
update_thread_status(ts, k, status, now) ==
    {IF t.id = k
     THEN [t EXCEPT !.status = status, !.updated_at = [t |-> now, aware |-> FALSE]]
     ELSE t : t \in ts}

\* POST /api/thread/{thread_id} for a thread that exists (else 404).
UpdateThread(U) ==
    /\ \E k \in {t.id : t \in threads}, status \in Submitted, now \in U.nows :
         threads' = IF Falsy(status) THEN threads
                    ELSE update_thread_status(threads, k, status, now)
    /\ UNCHANGED <<messages, ingestVars, syncVars, branch, viewVars, textVars>>

\* thread.messages of the stored thread k, in any order. The messages
\* variable does not keep the in_reply_to column: it is any value here.
StoredLists(k) ==
    LET stored == {r.message_id : r \in {x \in messages : x.thread_id = k}}
    IN {ms \in [1..Cardinality(stored) -> TreeRows] :
          /\ Cardinality(stored) <= MaxThread
          /\ {ms[i].message_id : i \in 1..Len(ms)} = stored}

(* ---- email_parser.py: text of a message ---- *)

\* A body is the list body.split("\n") gives: lines, each a sequence of
\* tokens. A token is a run of characters without whitespace, or one blank.
Whitespace == {" ", "\n"}

\* Lines for the quote splitter: text, quoted text (also indented, also with
\* the | marker), an attribution line, a blank line, ">" inside a line.
QuoteLines ==
    { <<>>,
      <<"x">>,
      <<">", " ", "x">>,
      <<" ", ">", "x">>,
      <<"|", " ", "x">>,
      <<"x", " ", ">">>,
      <<"On", " ", "x", " ", "wrote:">>,
      <<"On", " ", "x">> }

\* Lines for the patch detection.
PatchLines ==
    { <<"x">>,
      <<"diff --git", " ", "x">>,
      <<"x", " ", "diff --git">>,
      <<"---", " ", "x">>,
      <<"+++", " ", "x">>,
      <<"x", " ", "---">>,
      <<"Index:", " ", "x">>,
      <<" ", "Index:">> }

BodiesOf(lines) == UNION {[1..n -> lines] : n \in 0..MaxLines}

\* Subject headers, character by character.
Subjects ==
    { <<>>,
      <<"x">>,
      <<"[", "P", "A", "T", "C", "H", "]", " ", "x">>,
      <<"p", "a", "t", "c", "h">>,
      <<"x", "P", "a", "t", "c", "h", "x">>,
      <<"P", "A", "T", " ", "C", "H">>,
      <<"P", "A", "T", "C", "x">> }

\* str.upper on the characters at hand.
upper(str) ==
    [i \in 1..Len(str) |->
        CASE str[i] = "p" -> "P"
          [] str[i] = "a" -> "A"
          [] str[i] = "t" -> "T"
          [] str[i] = "c" -> "C"
          [] str[i] = "h" -> "H"
          [] OTHER -> str[i]]

startswith(str, prefix) ==
    Len(str) >= Len(prefix) /\ SubSeq(str, 1, Len(prefix)) = prefix

\* sub in str
contains(str, sub) ==
    \E i \in 1..(Len(str) - Len(sub) + 1) : SubSeq(str, i, i + Len(sub) - 1) = sub

RECURSIVE lstrip(_)
lstrip(str) ==
    IF str # <<>> /\ Head(str) \in Whitespace THEN lstrip(Tail(str)) ELSE str

RECURSIVE rstrip(_)
rstrip(str) ==
    IF str # <<>> /\ str[Len(str)] \in Whitespace
    THEN rstrip(SubSeq(str, 1, Len(str) - 1)) ELSE str

\* str.strip()
strip(str) == rstrip(lstrip(str))

RECURSIVE join(_)
\* "\n".join(lines)
join(lines) ==
    IF lines = <<>> THEN <<>>
    ELSE IF Len(lines) = 1 THEN lines[1]
    ELSE lines[1] \o <<"\n">> \o join(Tail(lines))

\* The marker tests of the loop body (email_parser.py 190-196).
is_quote_marker(line) ==
    LET stripped == strip(line)
    IN \/ startswith(stripped, <<">">>)
       \/ startswith(stripped, <<"|">>)

is_attribution(line) ==
    LET stripped == strip(line)
    IN startswith(stripped, <<"On", " ">>) /\ contains(line, <<" ", "wrote:">>)

RECURSIVE split_quoted(_, _, _, _)
\* for line in lines: ... (email_parser.py 188-201)
split_quoted(lines, in_quote, new_lines, quoted_lines) ==
    IF lines = <<>> THEN <<new_lines, quoted_lines>>
    ELSE LET line == Head(lines)
         IN IF is_quote_marker(line) \/ is_attribution(line) \/ in_quote
            THEN split_quoted(Tail(lines), TRUE, new_lines, Append(quoted_lines, line))
            ELSE split_quoted(Tail(lines), in_quote, Append(new_lines, line), quoted_lines)

\* Keeping only the trailing run of ">" lines as the quotation.
extract_quoted_text_trailing_block(b) ==
    LET quoted(k) == \A j \in k..Len(b) : b[j] = <<>> \/ startswith(strip(b[j]), <<">">>)
        k == CHOOSE k \in 1..(Len(b) + 1) :
               quoted(k) /\ \A j \in 1..(k - 1) : ~quoted(j)
    IN [new_content |-> strip(join(SubSeq(b, 1, k - 1))),
        quoted_content |-> strip(join(SubSeq(b, k, Len(b))))]

extract_quoted_text(b) ==
    LET r == split_quoted(b, FALSE, <<>>, <<>>)
    IN [new_content |-> strip(join(r[1])), quoted_content |-> strip(join(r[2]))]

\* The three patch_patterns, searched with re.MULTILINE (email_parser.py 139-146).
body_matches_patch_pattern(b) ==
    \/ \E i \in 1..Len(b) : contains(b[i], <<"diff --git">>)
    \/ \E i \in 1..(Len(b) - 1) :
         startswith(b[i], <<"---">>) /\ startswith(b[i + 1], <<"+++">>)
    \/ \E i \in 1..Len(b) : startswith(b[i], <<"Index:">>)

\* Where the second search, with re.MULTILINE | re.DOTALL, can match
\* (email_parser.py 149-153): with DOTALL the .* after --- runs over line ends.
MatchesAt(b, i, j) ==
    \/ b[i][j] = "diff --git"
    \/ j = 1 /\ b[i][1] = "---" /\ \E k \in (i + 1)..Len(b) : startswith(b[k], <<"+++">>)
    \/ j = 1 /\ b[i][1] = "Index:"

Before(i, j, k, l) == i < k \/ (i = k /\ j <= l)

\* body[match.start():], or None without a match
patch_content_of(b) ==
    LET at == {<<i, j>> \in (1..Len(b)) \X (1..5) : j <= Len(b[i]) /\ MatchesAt(b, i, j)}
    IN IF ~body_matches_patch_pattern(b) \/ at = {} THEN <<>>
       ELSE LET m == CHOOSE m \in at : \A n \in at : Before(m[1], m[2], n[1], n[2])
            IN <<join(<<SubSeq(b[m[1]], m[2], Len(b[m[1]]))>> \o SubSeq(b, m[1] + 1, Len(b)))>>

\* The subject test, were it case-sensitive.
subject_says_patch_case_sensitive(s) == contains(s, <<"P", "A", "T", "C", "H">>)

\* "PATCH" in subject.upper()  (email_parser.py 156)
subject_says_patch(s) == contains(upper(s), <<"P", "A", "T", "C", "H">>)

\* is_patch and patch_content as parse_email computes them (email_parser.py 136-157).
detect_patch(s, b) ==
    [is_patch |-> body_matches_patch_pattern(b) \/ subject_says_patch(s),
     patch_content |-> patch_content_of(b)]

\* parse_email on one message, as far as the patch detection goes.
ParseEmail ==
    /\ tpc = "idle"
    /\ \E s \in Subjects, b \in BodiesOf(PatchLines) :
         /\ subject' = s
         /\ body' = b
         /\ patch' = detect_patch(s, b)
    /\ tpc' = "parsed"
    /\ UNCHANGED <<threads, messages, ingestVars, syncVars, branch, viewVars, quote>>

\* extract_quoted_text(body)
ExtractQuotedText ==
    /\ tpc = "idle"
    /\ \E b \in BodiesOf(QuoteLines) :
         /\ body' = b
         /\ quote' = extract_quoted_text(b)
    /\ tpc' = "extracted"
    /\ UNCHANGED <<threads, messages, ingestVars, syncVars, branch, viewVars, subject, patch>>

\* The caller has the result; the next call starts afresh.
TextDone ==
    /\ tpc # "idle"
    /\ tpc' = "idle"
    /\ subject' = <<>>
    /\ body' = <<>>
    /\ patch' = NoPatch
    /\ quote' = NoQuote
    /\ UNCHANGED <<threads, messages, ingestVars, syncVars, branch, viewVars>>

(* ======================= specifications ======================= *)

\* Archive ingestions and sync passes run one after another on one store.
Next ==
    \/ IngestBegin(Undated)
    \/ IngestNext(Undated)
    \/ IngestBody
    \/ IngestCommit
    \/ IngestDone
    \/ (pc = "idle" /\ NoSyncRunning /\ SyncBegin(1))
    \/ SyncSource(1)
    \/ SyncFetch(1, Undated)
    \/ SyncSourceDone(1)
    \/ SyncLookup(1)
    \/ SyncCreateThread(1, Undated)
    \/ SyncCreateMessage(1, Undated)
    \/ SyncReturn(1)
    \/ SyncDone(1)

Spec == Init /\ [][Next]_vars

\* The text functions of email_parser on every subject and body at hand.
NextText ==
    \/ ParseEmail
    \/ ExtractQuotedText
    \/ TextDone

SpecText == Init /\ [][NextText]_vars

\* Archives that may fail to be read half-way, and sync passes.
NextAbort ==
    \/ IngestBegin(Undated)
    \/ IngestNext(Undated)
    \/ IngestBody
    \/ IngestRaise
    \/ IngestCommit
    \/ IngestDone
    \/ (pc = "idle" /\ NoSyncRunning /\ SyncBegin(1))
    \/ SyncSource(1)
    \/ SyncFetch(1, Undated)
    \/ SyncSourceDone(1)
    \/ SyncLookup(1)
    \/ SyncCreateThread(1, Undated)
    \/ SyncCreateMessage(1, Undated)
    \/ SyncReturn(1)
    \/ SyncDone(1)

SpecAbort == Init /\ [][NextAbort]_vars

\* Archive ingestion alone, on a store that no sync pass writes.
NextIngest ==
    \/ IngestBegin(Undated)
    \/ IngestNext(Undated)
    \/ IngestBody
    \/ IngestCommit
    \/ IngestDone

SpecIngest == Init /\ [][NextIngest]_vars

\* Archive ingestion alone, with dated e-mails.
NextIngestDated ==
    \/ IngestBegin(Dated)
    \/ IngestNext(Dated)
    \/ IngestBody
    \/ IngestCommit
    \/ IngestDone

SpecIngestDated == Init /\ [][NextIngestDated]_vars

\* Archive ingestion alone, the messages of one reply tree in any order and
\* any split into archives.
NextOrder ==
    \/ IngestBegin(Ordered)
    \/ IngestNext(Ordered)
    \/ IngestBody
    \/ IngestCommit
    \/ IngestDone

SpecOrder == Init /\ [][NextOrder]_vars

\* The same, with dated e-mails and a clock.
NextDated ==
    \/ IngestBegin(Dated)
    \/ IngestNext(Dated)
    \/ IngestBody
    \/ IngestCommit
    \/ IngestDone
    \/ (pc = "idle" /\ NoSyncRunning /\ SyncBegin(1))
    \/ SyncSource(1)
    \/ SyncFetch(1, Dated)
    \/ SyncSourceDone(1)
    \/ SyncLookup(1)
    \/ SyncCreateThread(1, Dated)
    \/ SyncCreateMessage(1, Dated)
    \/ SyncReturn(1)
    \/ SyncDone(1)

SpecDated == Init /\ [][NextDated]_vars

\* Sync passes, and archive files that are each ingested twice in a row.
NextReplay ==
    \/ IngestBegin(Replayed)
    \/ IngestNext(Replayed)
    \/ IngestNextAgain
    \/ IngestBody
    \/ IngestCommit
    \/ IngestAgain
    \/ (run # 1 /\ IngestDone)
    \/ (pc = "idle" /\ NoSyncRunning /\ SyncBegin(1))
    \/ SyncSource(1)
    \/ SyncFetch(1, Replayed)
    \/ SyncSourceDone(1)
    \/ SyncLookup(1)
    \/ SyncCreateThread(1, Replayed)
    \/ SyncCreateMessage(1, Replayed)
    \/ SyncReturn(1)
    \/ SyncDone(1)

SpecReplay == Init /\ [][NextReplay]_vars

\* Thread views over every list of Message rows with distinct message_ids.
NextTree ==
    \/ ViewThread(TreeInputs)
    \/ BuildThreadTree
    \/ FlattenLinearChains
    \/ ThreadToFlatList
    \/ ViewDone

SpecTree == Init /\ [][NextTree]_vars

\* Ingestions, sync passes, status updates and thread views, one at a time.
NextStatus ==
    \/ (vpc = "idle" /\ IngestBegin(Statused))
    \/ IngestNext(Statused)
    \/ IngestBody
    \/ IngestCommit
    \/ IngestDone
    \/ (vpc = "idle" /\ pc = "idle" /\ NoSyncRunning /\ SyncBegin(1))
    \/ SyncSource(1)
    \/ SyncFetch(1, Statused)
    \/ SyncSourceDone(1)
    \/ SyncLookup(1)
    \/ SyncCreateThread(1, Statused)
    \/ SyncCreateMessage(1, Statused)
    \/ SyncReturn(1)
    \/ SyncDone(1)
    \/ (vpc = "idle" /\ pc = "idle" /\ NoSyncRunning /\ UpdateThread(Statused))
    \/ (pc = "idle" /\ NoSyncRunning /\ \E t \in threads : ViewThread(StoredLists(t.id)))
    \/ BuildThreadTree
    \/ FlattenLinearChains
    \/ ThreadToFlatList
    \/ ViewDone

SpecStatus == Init /\ [][NextStatus]_vars

\* Sync passes that start on an empty store, run at the same time and
\* interleave at their awaits.
NextConc ==
    \E p \in Procs :
      \/ (threads = {} /\ SyncBegin(p))
      \/ SyncSource(p)
      \/ SyncFetch(p, Concurrent)
      \/ SyncSourceDone(p)
      \/ SyncLookup(p)
      \/ SyncCreateThread(p, Concurrent)
      \/ SyncCreateMessage(p, Concurrent)
      \/ SyncReturn(p)
      \/ SyncDone(p)

SpecConc == Init /\ [][NextConc]_vars

(* ======================= claims ======================= *)

\* The thread-root id the specification derives from an e-mail's headers.
DerivedRoot(m) ==
    IF m.references # <<>> THEN m.references[1]
    ELSE IF m.in_reply_to \notin {"", None} THEN m.in_reply_to
    ELSE m.message_id

ThreadIds(ts) == {t.id : t \in ts}
Roots(ts) == {t.first_message_id : t \in ts}
HasMessage(ms, id) == \E r \in ms : r.message_id = id
RootedAt(ts, id) == {t \in ts : t.first_message_id = id}

\* The archive loop body is about to process a stored-able, not yet stored e-mail.
FreshInBody ==
    /\ pc = "body"
    /\ msg.message_id # ""
    /\ ~HasMessage(session.messages, msg.message_id)

C1_Ingest ==
    (FreshInBody /\ RootedAt(session.threads, DerivedRoot(msg)) # {})
    => \E t \in RootedAt(session.threads, DerivedRoot(msg)) :
         /\ session'.messages =
              session.messages \cup {[message_id |-> msg.message_id, thread_id |-> t.id]}
         /\ ThreadIds(session'.threads) = ThreadIds(session.threads)
         /\ Roots(session'.threads) = Roots(session.threads)

C1_Sync ==
    /\ (spc[1] = "lookup" /\ spc'[1] # "lookup"
          /\ RootedAt(threads, DerivedRoot(parsed_email[1])) # {})
       => /\ spc'[1] = "create_message"
          /\ \E t \in RootedAt(threads, DerivedRoot(parsed_email[1])) : thread'[1] = t.id
          /\ threads' = threads
    /\ (spc[1] = "create_message" /\ spc'[1] # "create_message")
       => \E t \in RootedAt(threads, DerivedRoot(parsed_email[1])) :
            /\ messages' =
                 messages \cup {[message_id |-> parsed_email[1].message_id, thread_id |-> t.id]}
            /\ ThreadIds(threads') = ThreadIds(threads)
            /\ Roots(threads') = Roots(threads)

\* C1: a message that is not a duplicate joins the existing Thread whose
\* first_message_id is its derived root id (references[0], else in_reply_to,
\* else its own id), and no Thread is created for it; in ingest_archive and
\* in sync_all_sources.
C1_JoinsRootThread == [][C1_Ingest /\ C1_Sync]_vars

C1_Witness ==
    /\ pc = "loop"
    /\ branch = "root"
    /\ inserted >= 1
    /\ \E t \in session.threads :
         Cardinality({r \in session.messages : r.thread_id = t.id}) >= 2

\* C2: in ingest_archive an e-mail whose message_id is already stored is
\* skipped: skipped grows by one, no row is added and no row changes.
C2_DuplicateSkipped ==
    [][(pc = "body" /\ msg.message_id # "" /\ HasMessage(session.messages, msg.message_id))
       => /\ skipped' = skipped + 1
          /\ inserted' = inserted
          /\ session' = session
          /\ threads' = threads
          /\ messages' = messages
          /\ pc' = "loop"]_vars

\* The duplicate was stored earlier in the same archive.
C2_Witness ==
    /\ branch = "dup"
    /\ skipped = 1
    /\ inserted = 1
    /\ messages = {}

C3_SecondRunAllDuplicates ==
    [][run = 2
       => /\ pc' # "raised"
          /\ (pc = "body" => (skipped' = skipped + 1 /\ session' = session))
          /\ (pc' = "returned"
                => (inserted' = 0 /\ messages' = messages /\ threads' = threads))]_vars

\* C5: in ingest_archive an e-mail whose derived root differs from its own id,
\* with no Thread rooted at the derived root and neither that root nor the
\* in_reply_to target stored, gets a new Thread whose first_message_id is its
\* own id, and a warning is recorded.
C5_FallbackRootsAtOwnId ==
    [][(FreshInBody
          /\ DerivedRoot(msg) # msg.message_id
          /\ RootedAt(session.threads, DerivedRoot(msg)) = {}
          /\ ~HasMessage(session.messages, DerivedRoot(msg))
          /\ (msg.in_reply_to = "" \/ ~HasMessage(session.messages, msg.in_reply_to)))
       => /\ \E t \in session'.threads :
               /\ t.id \notin ThreadIds(session.threads)
               /\ t.first_message_id = msg.message_id
               /\ [message_id |-> msg.message_id, thread_id |-> t.id] \in session'.messages
          /\ Cardinality(session'.threads) = Cardinality(session.threads) + 1
          /\ msg.message_id \in warnings']_vars

\* C6: the live-sync path creates the Thread of an e-mail with no stored
\* anchor (no Thread rooted at its derived root, no stored Message with the
\* derived root id or the in_reply_to id) with first_message_id equal to the
\* e-mail's own id.
C6_SyncFallbackRootsAtOwnId ==
    [][(spc[1] = "create_thread" /\ spc'[1] = "create_message"
          /\ ~HasMessage(messages, DerivedRoot(parsed_email[1]))
          /\ (parsed_email[1].in_reply_to = None
                \/ ~HasMessage(messages, parsed_email[1].in_reply_to)))
       => \E t \in threads' :
            /\ t.id \notin ThreadIds(threads)
            /\ t.first_message_id = parsed_email[1].message_id]_vars

MaxOf(a, b) == IF a >= b THEN a ELSE b

\* C7: a message with a comparable date that is inserted into a Thread that
\* existed before it was processed leaves that thread's updated_at at
\* max(previous updated_at, message date), however the thread was found.
C7_Ingest ==
    FreshInBody
    => \A t \in session.threads :
         ([message_id |-> msg.message_id, thread_id |-> t.id] \in session'.messages
            /\ msg.date.aware = t.updated_at.aware)
         => \E u \in session'.threads :
              /\ u.id = t.id
              /\ u.updated_at.t = MaxOf(t.updated_at.t, msg.date.t)

C7_Sync ==
    (spc[1] = "create_message" /\ spc'[1] = "fetch" /\ branch # "sync_created")
    => \A t \in threads :
         (t.id = thread[1])
         => \E u \in threads' :
              /\ u.id = t.id
              /\ u.updated_at.t = MaxOf(t.updated_at.t, parsed_email[1].date.t)

C7_UpdatedAtIsMax == [][C7_Ingest /\ C7_Sync]_vars

\* C8: no two Threads share a first_message_id, and no ingestion step tries to
\* create a Thread whose first_message_id an existing Thread holds.
C8_UniqueRoots ==
    /\ \A t, u \in threads : t.first_message_id = u.first_message_id => t.id = u.id
    /\ \A t, u \in session.threads : t.first_message_id = u.first_message_id => t.id = u.id
    /\ pc # "raised"
    /\ branch \notin {"integrity_error", "sync_error"}

\* C9: in ingest_archive every e-mail with a usable, not yet stored
\* Message-ID adds exactly one Message row and at most one Thread row; on
\* return inserted is the number of Message rows the call added, and skipped
\* counts the e-mails whose message_id was stored when they were processed.
C9_OneRowPerMessage ==
    [][/\ FreshInBody
          => /\ Cardinality(session'.messages) = Cardinality(session.messages) + 1
             /\ Cardinality(session'.threads) \in
                  {Cardinality(session.threads), Cardinality(session.threads) + 1}
             /\ inserted' = inserted + 1
             /\ skipped' = skipped
       /\ (pc = "body" /\ ~FreshInBody)
          => /\ inserted' = inserted
             /\ skipped' = IF msg.message_id # "" THEN skipped + 1 ELSE skipped
       /\ (pc = "loop" /\ pc' = "returned")
          => Cardinality(messages') = Cardinality(messages) + inserted']_vars

NoEmptyKey(s) ==
    /\ \A r \in s.messages : r.message_id # ""
    /\ \A t \in s.threads : t.first_message_id # ""

\* C10: an e-mail without a Message-ID is skipped and the batch goes on: no
\* Message row and no Thread row is created for it, none keyed by the empty
\* string; in ingest_archive and in sync_all_sources.
C10_NoIdSkipped ==
    [][/\ (pc = "body" /\ msg.message_id = "")
          => (session' = session /\ pc' = "loop"
                /\ inserted' = inserted /\ skipped' = skipped)
       /\ NoEmptyKey(session')
       /\ NoEmptyKey([threads |-> threads', messages |-> messages'])]_vars

(* ---- thread trees ---- *)

TreeBuilt == vpc \in {"built", "listed"}
InSeq(x, sq) == \E k \in 1..Len(sq) : sq[k] = x
ChildOfAnother(id) ==
    \E p \in DOMAIN tree.nodes : p # id /\ InSeq(id, tree.nodes[p].children)

\* The id a message replies to inside the list, or None.
ParentId(ms, m) == IF InNodes(ms, m) THEN m.in_reply_to ELSE None
RowOf(ms, id) == ms[CHOOSE i \in 1..Len(ms) : ms[i].message_id = id]

RECURSIVE ReplyChain(_, _, _)
\* The ids met when following in_reply_to from a message, n steps at most.
ReplyChain(ms, m, n) ==
    IF n = 0 \/ ParentId(ms, m) = None THEN {}
    ELSE {ParentId(ms, m)} \cup ReplyChain(ms, RowOf(ms, ParentId(ms, m)), n - 1)

Ancestors(ms, m) == ReplyChain(ms, m, Len(ms))
OnCycle(ms, m) == m.message_id \in Ancestors(ms, m)
Acyclic(ms) == \A i \in 1..Len(ms) : ~OnCycle(ms, ms[i])

\* C11: build_thread_tree makes a message a child of another message's node
\* exactly when its in_reply_to is set and is the message_id of a message of
\* the input list (then it is a child of that message's node); every other
\* message is a root.
C11_ChildIffReplyInInput ==
    TreeBuilt =>
      \A i \in 1..Len(tmessages) :
        LET m == tmessages[i]
        IN /\ ChildOfAnother(m.message_id) <=> InNodes(tmessages, m)
           /\ ChildOfAnother(m.message_id)
                => InSeq(m.message_id, tree.nodes[m.in_reply_to].children)
           /\ ~ChildOfAnother(m.message_id) => InSeq(m.message_id, tree.roots)

\* C12: a message whose in_reply_to names itself or one of its descendants is
\* returned as a root, and every input message is reachable from a returned
\* root.
C12_CycleBecomesRoot ==
    TreeBuilt =>
      \A i \in 1..Len(tmessages) :
        /\ OnCycle(tmessages, tmessages[i]) => InSeq(tmessages[i].message_id, tree.roots)
        /\ \E k \in 1..Len(thread_to_flat_list(tree, FALSE)) :
             thread_to_flat_list(tree, FALSE)[k].message = tmessages[i]

EntryOf(id) == flat_list[CHOOSE k \in 1..Len(flat_list) : flat_list[k].message.message_id = id]
NodeParent(id) == CHOOSE p \in DOMAIN tree.nodes : InSeq(id, tree.nodes[p].children)

\* C13: with flatten=True a root has depth 0, an entry whose parent has one
\* child has its parent's depth, an entry whose parent has several children
\* has its parent's depth plus 1; an unbranched chain is all at depth 0.
C13_FlattenedDepth ==
    (vpc = "listed" /\ flatten) =>
      \A k \in 1..Len(flat_list) :
        LET id == flat_list[k].message.message_id
        IN IF InSeq(id, tree.roots) THEN flat_list[k].depth = 0
           ELSE LET p == NodeParent(id)
                IN flat_list[k].depth =
                     IF Len(tree.nodes[p].children) = 1
                     THEN EntryOf(p).depth
                     ELSE EntryOf(p).depth + 1

C13_Witness ==
    /\ vpc = "listed"
    /\ flatten
    /\ Len(flat_list) = 3
    /\ Len(tree.roots) = 1
    /\ \A k \in 1..3 : flat_list[k].depth = 0 /\ flat_list[k].num_children <= 1

\* C14: with flatten=False every entry reports the depth build_thread_tree
\* gave its node: 0 for a root, the parent's depth plus 1 for a child.
C14_TreeDepth ==
    (vpc = "listed" /\ ~flatten) =>
      \A k \in 1..Len(flat_list) :
        LET id == flat_list[k].message.message_id
        IN /\ flat_list[k].depth = tree.nodes[id].depth
           /\ flat_list[k].depth =
                IF InSeq(id, tree.roots) THEN 0 ELSE tree.nodes[NodeParent(id)].depth + 1

C14_Witness ==
    /\ vpc = "listed"
    /\ ~flatten
    /\ Len(flat_list) = 2
    /\ flat_list[1].depth = 0
    /\ flat_list[2].depth = 1
    /\ flat_list[2].message.in_reply_to = flat_list[1].message.message_id

Pos(m) == CHOOSE k \in 1..Len(flat_list) : flat_list[k].message = m

\* C15: for an acyclic list with distinct message_ids the flat list holds each
\* message once, in depth-first pre-order: a message after its ancestors, a
\* message's whole subtree before its next sibling, siblings and roots in the
\* order of the input list.
C15_PreOrder ==
    (vpc = "listed" /\ Acyclic(tmessages)) =>
      /\ Len(flat_list) = Len(tmessages)
      /\ \A i \in 1..Len(tmessages) :
           Cardinality({k \in 1..Len(flat_list) : flat_list[k].message = tmessages[i]}) = 1
      /\ \A i, j \in 1..Len(tmessages) :
           LET m == tmessages[i]
               n == tmessages[j]
           IN /\ m.message_id \in Ancestors(tmessages, n) => Pos(m) < Pos(n)
              /\ (i < j /\ ParentId(tmessages, m) = ParentId(tmessages, n))
                   => /\ Pos(m) < Pos(n)
                      /\ \A d \in 1..Len(tmessages) :
                           m.message_id \in Ancestors(tmessages, tmessages[d])
                             => Pos(tmessages[d]) < Pos(n)

C15_Witness ==
    /\ vpc = "listed"
    /\ Acyclic(tmessages)
    /\ Len(tmessages) = 3
    /\ ParentId(tmessages, tmessages[1]) = None
    /\ ParentId(tmessages, tmessages[2]) = None
    /\ ParentId(tmessages, tmessages[3]) = tmessages[1].message_id
    /\ flat_list[2].message = tmessages[3]
    /\ flat_list[3].message = tmessages[2]

(* ---- the lifecycle of rows ---- *)

RowsOf(ms) == {ms[i] : i \in 1..Len(ms)}

\* C16: a stored Message row is never modified, deleted or moved to another
\* thread, by an ingestion step, a status update or a thread view; of a
\* Thread row only updated_at and status change. A thread view leaves the
\* rows it loaded as they were, and its nodes and entries hold those rows.
C16_MessagesImmutable ==
    [][/\ messages \subseteq messages'
       /\ \A t \in threads :
            \E u \in threads' :
              /\ u.id = t.id
              /\ u.first_message_id = t.first_message_id
              /\ u.created_at = t.created_at
       /\ vpc # "idle" => (vpc' = "idle" \/ tmessages' = tmessages)
       /\ vpc' \in {"built", "listed"}
            => /\ \A id \in DOMAIN tree'.nodes : tree'.nodes[id].message \in RowsOf(tmessages)
               /\ \A k \in 1..Len(flat_list') : flat_list'[k].message \in RowsOf(tmessages)]_vars

C16_Witness ==
    /\ vpc = "listed"
    /\ Len(flat_list) = 2
    /\ \E t \in threads :
         /\ t.status = "closed"
         /\ \A k \in 1..2 :
              [message_id |-> flat_list[k].message.message_id, thread_id |-> t.id] \in messages

\* C20: in every reachable state every Thread's status is 'open' or
\* 'closed', in the store and in the rows an ingestion holds, whatever
\* status values were submitted to update_thread.
C20_StatusOpenOrClosed ==
    /\ \A t \in threads : t.status \in {"open", "closed"}
    /\ \A t \in session.threads : t.status \in {"open", "closed"}

(* ---- failures ---- *)

InSyncPass(p) == spc[p] \notin {"idle", "returned"}

\* C17: when fetching or storing for a source raises, sync_all_sources
\* records one error, does not count the source as processed and goes on to
\* the next source, from where it can return its statistics; a disabled source
\* is passed over without being read; a source is counted only when its
\* fetcher is exhausted.
C17_SyncCompletes ==
    [][/\ \A p \in Procs :
         InSyncPass(p) =>
           /\ stats'[p].errors # stats[p].errors
                => /\ stats'[p].errors = stats[p].errors + 1
                   /\ stats'[p].processed_sources = stats[p].processed_sources
                   /\ stats'[p].new_messages = stats[p].new_messages
                   /\ spc'[p] = "sources"
           /\ stats'[p].processed_sources # stats[p].processed_sources
                => /\ spc[p] = "fetch"
                   /\ stats'[p].processed_sources = stats[p].processed_sources + 1
                   /\ spc'[p] = "sources"
           /\ spc'[p] # "idle"
       /\ (branch' = "disabled" /\ branch # "disabled")
            => UNCHANGED <<threads, messages, spc, parsed_email, thread, stats>>]_vars

C17_Witness ==
    /\ spc[1] = "create_message"
    /\ branch = "sync_created"
    /\ stats[1].errors = 1
    /\ stats[1].processed_sources = 0
    /\ messages # {}

\* C18: when storing one message fails, only that message is lost: the
\* batch goes on with the next message of the same source or archive.
C18_OnlyFailedMessageLost ==
    [][/\ \A p \in Procs :
            (spc[p] \in {"create_thread", "create_message"} /\ spc'[p] # spc[p])
              => spc'[p] \in {"create_message", "fetch"}
       /\ pc = "body" => (pc' = "loop" /\ session.messages \subseteq session'.messages)]_vars

\* C19: a sync pass that finds, when it creates the Thread of its message,
\* that a Thread with that first_message_id was created meanwhile, takes
\* that thread and goes on to store its message in it.
C19_LoserReResolves ==
    [][\A p \in Procs :
         (/\ spc[p] = "create_thread"
          /\ ThreadByFirst(threads, get_thread_id(parsed_email[p])) # {}
          /\ spc'[p] # spc[p])
         => /\ threads' = threads
            /\ spc'[p] = "create_message"
            /\ parsed_email'[p] = parsed_email[p]
            /\ \E t \in ThreadByFirst(threads, get_thread_id(parsed_email[p])) :
                 thread'[p] = t.id]_vars

(* ---- flags and termination of the tree functions ---- *)

\* C25: in the forest build_thread_tree returned, and after
\* flatten_linear_chains was applied to it, a node's can_flatten is true
\* exactly when the node has exactly one child.
C25_CanFlattenIffOneChild ==
    TreeBuilt =>
      \A id \in DOMAIN tree.nodes :
        tree.nodes[id].can_flatten <=> (Len(tree.nodes[id].children) = 1)

RECURSIVE Below(_, _, _)
\* The ids met within n child links under the nodes of a set.
Below(nodes, from, n) ==
    IF n = 0 \/ from = {} THEN {}
    ELSE LET kids == UNION {{nodes[id].children[k] : k \in 1..Len(nodes[id].children)}
                              : id \in from}
         IN kids \cup Below(nodes, kids, n - 1)

FromRoots(t) ==
    {t.roots[k] : k \in 1..Len(t.roots)}
      \cup Below(t.nodes, {t.roots[k] : k \in 1..Len(t.roots)}, Len(tmessages))

\* C28: depth assignment and traversal follow child links from the roots
\* only, and end: no node that a root reaches lies under itself or is a
\* message of a reply cycle, and the traversal emits no message twice, so at
\* most one entry per input message.
C28_TraversalBounded ==
    TreeBuilt =>
      /\ \A id \in FromRoots(tree) :
           /\ id \notin Below(tree.nodes, {id}, Len(tmessages))
           /\ ~OnCycle(tmessages, tree.nodes[id].message)
           /\ tree.nodes[id].depth < Len(tmessages)
      /\ Len(thread_to_flat_list(tree, flatten)) <= Len(tmessages)
      /\ \A j, k \in 1..Len(thread_to_flat_list(tree, flatten)) :
           thread_to_flat_list(tree, flatten)[j].message
             = thread_to_flat_list(tree, flatten)[k].message => j = k

C28_Witness ==
    /\ vpc = "listed"
    /\ Len(tmessages) = 3
    /\ Len(flat_list) = 1
    /\ \E i, j \in 1..3 :
         /\ i # j
         /\ tmessages[i].in_reply_to = tmessages[j].message_id
         /\ tmessages[j].in_reply_to = tmessages[i].message_id

(* ---- threads without their message ---- *)

\* C30: once every running sync pass has finished, every Thread owns at
\* least one Message, whatever the interleaving of the passes.
C30_NoEmptyThread ==
    (\A p \in Procs : spc[p] \in {"idle", "returned"})
      => \A t \in threads : \E r \in messages : r.thread_id = t.id

(* ---- archive ingestion alone ---- *)

C27_OrderIndependent ==
    (pc = "idle" /\ {r.message_id : r \in messages} \in {{"a"}, {"a", "b"}, {"a", "b", "c"}})
      => \E t \in threads :
           /\ t.first_message_id = "a"
           /\ \A r \in messages : r.thread_id = t.id

(* ---- one archive, one transaction ---- *)

C29_AllOrNothing ==
    [][/\ pc \in {"loop", "body"}
          => IF pc' = "returned"
             THEN /\ messages \subseteq messages'
                  /\ Cardinality(messages') = Cardinality(messages) + inserted
                  /\ {t.id : t \in threads} \subseteq {t.id : t \in threads'}
             ELSE messages' = messages /\ threads' = threads
       /\ (pc = "idle" /\ pc' = "loop")
          => session' = [threads |-> threads, messages |-> messages]]_vars

C29_Witness ==
    /\ pc = "raised"
    /\ inserted >= 1
    /\ messages # {}
    /\ session = NoSession

\* C24: a Thread created during ingestion has created_at and updated_at both
\* equal to the date of the message that created it, in ingest_archive and in
\* sync_all_sources.
C24_Ingest ==
    FreshInBody
    => \A t \in session'.threads :
         (t.id \notin {u.id : u \in session.threads})
         => t.created_at = msg.date /\ t.updated_at = msg.date

C24_Sync ==
    (spc[1] = "create_thread" /\ spc'[1] = "create_message")
    => \A t \in threads' :
         (t.id \notin {u.id : u \in threads})
         => /\ t.created_at.t = parsed_email[1].date.t
            /\ t.updated_at.t = parsed_email[1].date.t

C24_CreatedAtIsMessageDate == [][C24_Ingest /\ C24_Sync]_vars

(* ---- the text of a message ---- *)

\* C21: extract_quoted_text puts the trailing block of lines that begin with
\* '>' into the quoted segment and everything before it into the new
\* content; a body without a '>' line comes back as new content with an
\* empty quoted segment, and unquoted text that follows quoted lines stays in
\* the new content.
C21_TrailingQuoteBlock ==
    (tpc = "extracted") => quote = extract_quoted_text_trailing_block(body)

\* C22: parse_email sets is_patch exactly when the body contains 'diff --git',
\* or a line starting with '---' immediately followed by a line starting with
\* '+++', or a line starting with 'Index:', or the subject contains PATCH in
\* any case; patch_content is present only when the body gave the signal, so
\* never while is_patch is false.
SaysPatch(s) ==
    \E i \in 1..(Len(s) - 4) :
      /\ s[i] \in {"P", "p"}
      /\ s[i + 1] \in {"A", "a"}
      /\ s[i + 2] \in {"T", "t"}
      /\ s[i + 3] \in {"C", "c"}
      /\ s[i + 4] \in {"H", "h"}

HasDiff(b) ==
    \/ \E i \in 1..Len(b) : \E j \in 1..Len(b[i]) : b[i][j] = "diff --git"
    \/ \E i \in 1..Len(b) : b[i] # <<>> /\ b[i][1] = "Index:"
    \/ \E i \in 1..Len(b) :
         /\ i < Len(b)
         /\ b[i][1] = "---"
         /\ b[i + 1][1] = "+++"

====
